---- MODULE Spec2Model ----
(***************************************************************************)
(* TimedMemoCache of tribal_village_env/memoization.py as a state machine. *)
(*                                                                         *)
(* Time is counted in ticks of the wall clock. Every time.time() call of   *)
(* the code is one reading of `clock`; the clock never runs backwards in   *)
(* this specification, and it may advance between two readings taken       *)
(* inside one call (get* reads it on entry, cleanup() reads it again, and  *)
(* compute takes time before the store).                                   *)
(***************************************************************************)
EXTENDS Integers, FiniteSets, TLC

\* ------------------------------------------------------------- bounds
\* The last clock reading the model explores.
MaxTime == 3

Keys == {"K1", "K2"}
\* max_age values handed to the constructor and the setter (0 is accepted).
AgeValues == {0, 1, 2}
\* cleanup_interval values handed to the constructor (0 is accepted).
IntervalValues == {0, 2}
\* Ticks that may pass between two clock readings inside one call.
Drifts == {0, 1}
\* Arguments handed to get_with_arg, and argument pairs handed to
\* get_with_2_args.
Args == {1, 2}
ArgPairs == {<<1, 1>>, <<1, 3>>}
\* The compute callables handed to get (zero arguments), get_with_arg (one)
\* and get_with_2_args (two).  "raises" is a callable that raises.
Computes0 == {"const2", "const4", "raises"}
Computes1 == {"double", "raises"}
Computes2 == {"add", "raises"}
NoKey == "-"
NoFn == "-"

\* The functions wrapped by a decorator, and the tasks that call them.
Funcs == {"F", "G"}
Tasks == {"T1", "T2"}
\* max_age values handed to memoize / memoize_sync.
DecoAges == {0, 1, 2}
\* The two decorator factories.
DecoKinds == {"memoize", "memoize_sync"}
\* Keyword names, in the order Python sorts them.
KwNames == <<"multiplier", "offset">>
\* Calls as written at the call site: the positional tuple and the keyword
\* arguments in the order they are written.
CallShapes ==
  {[args |-> <<5>>, kwargs |-> <<>>],
   [args |-> <<10>>, kwargs |-> <<>>],
   [args |-> <<5, 2>>, kwargs |-> <<>>],
   [args |-> <<5>>, kwargs |-> << <<"multiplier", 2>> >>],
   [args |-> <<5>>, kwargs |-> << <<"multiplier", 3>> >>],
   [args |-> <<5>>, kwargs |-> << <<"multiplier", 2>>, <<"offset", 1>> >>],
   [args |-> <<5>>, kwargs |-> << <<"offset", 1>>, <<"multiplier", 2>> >>]}
\* Pairs of calls made to one decorated function in a run: they differ in a
\* keyword value, in a positional value, in the order the keywords are written,
\* in how the second value is passed, and in having a keyword at all.
ShapePairs ==
  {{[args |-> <<5>>, kwargs |-> << <<"multiplier", 2>> >>],
    [args |-> <<5>>, kwargs |-> << <<"multiplier", 3>> >>]},
   {[args |-> <<5>>, kwargs |-> <<>>],
    [args |-> <<10>>, kwargs |-> <<>>]},
   {[args |-> <<5>>, kwargs |-> << <<"multiplier", 2>>, <<"offset", 1>> >>],
    [args |-> <<5>>, kwargs |-> << <<"offset", 1>>, <<"multiplier", 2>> >>]},
   {[args |-> <<5, 2>>, kwargs |-> <<>>],
    [args |-> <<5>>, kwargs |-> << <<"multiplier", 2>> >>]},
   {[args |-> <<5>>, kwargs |-> <<>>],
    [args |-> <<5>>, kwargs |-> << <<"multiplier", 2>> >>]}}
\* The call made in the runs with two functions or two tasks.
OneShape == {[args |-> <<5>>, kwargs |-> <<>>]}
\* What a run does: the calls it makes to F and to G and the tasks that make
\* them.  One task calls F in two ways; one task calls F and G in the same
\* way; two tasks call F in the same way (their calls can overlap).
CallPlans ==
  {[F |-> P, G |-> {}, tasks |-> {"T1"}] : P \in ShapePairs}
  \cup {[F |-> OneShape, G |-> OneShape, tasks |-> {"T1"}],
        [F |-> OneShape, G |-> {}, tasks |-> Tasks]}
NoCall == [args |-> <<>>, kwargs |-> <<>>]
NoTask == "-"

\* Coordinates handed to pos_key: the ends of the signed 32-bit range, the
\* values of the tests and their neighbours.
Coords32 == {-2147483647 - 1, -20, -10, -1, 0, 1, 10, 20, 2147483647}
\* Coordinates handed to agent_pos_key: the ends of the signed 24-bit range
\* and values in between.
Coords24 == {-8388608, -1, 0, 20, 8388607}
\* Agent ids handed to agent_pos_key.
AgentIds == {0, 1, 65535}
\* The values handed to cache_key, each standing for a hashable Python value
\* (an int, two strings, a tuple); two of them are equal in Python iff they
\* are the same here.  KeyLengths: how many of them a call passes.
Hashables == {"1", "a", "b", "(2, 3)"}
KeyLengths == 0 .. 3
\* The bit positions kept of a Python integer; the bits above the last one
\* repeat it (two's complement, sign extended).
BitPositions == 0 .. 79

VARIABLES
  clock,             \* the wall clock, what time.time() returns now
  cache,             \* self._cache: key -> [value, timestamp]
  max_age,           \* self._max_age
  cleanup_interval,  \* self._cleanup_interval
  last_cleanup,      \* self._last_cleanup
  last,              \* what the last operation did and returned (observation)
  computed_at,       \* per key: the lookup time of the last successful compute
                     \* since the last invalidate/clear/max_age change/failure
  deco_kind,         \* the factory that made the decorator: memoize or memoize_sync
  deco_max_age,      \* the max_age the decorator closes over
  plan,              \* the calls the program makes to F and G, and its tasks
  dcache,            \* per decorator application: its dict, key -> [value, timestamp]
  awaiting,          \* per task: the wrapper call suspended in `await func(...)`
  dlast,             \* what the last wrapper step did and returned (observation)
  kin,               \* the arguments of two calls of a key helper
  kout,              \* the keys the two calls returned
  sweeps,            \* the last two settings of last_cleanup (history)
  frame              \* the get* call whose compute is running, or the last
                     \* one that ran while other calls were made

\* The variables of a TimedMemoCache and what is observed of it.
cacheVars == <<cache, max_age, cleanup_interval, last_cleanup, last, computed_at>>

\* The variables of the decorated functions and what is observed of them.
decoVars == <<deco_kind, deco_max_age, plan, dcache, awaiting, dlast>>

\* The variables of the key helpers.
keyVars == <<kin, kout>>

\* The record of the sweeps and the get* call in progress.
sideVars == <<sweeps, frame>>

vars == <<clock, cache, max_age, cleanup_interval, last_cleanup, last, computed_at,
          deco_kind, deco_max_age, plan, dcache, awaiting, dlast, kin, kout,
          sweeps, frame>>

\* ------------------------------------------------------ the callables
\* What a callable yields: {} when it raises, else {its return value}.
Call0(fn) ==
  IF fn = "const2" THEN {2} ELSE IF fn = "const4" THEN {4} ELSE {}

Call1(fn, arg) ==
  IF fn = "double" THEN {arg * 2} ELSE {}

Call2(fn, arg1, arg2) ==
  IF fn = "add" THEN {arg1 + arg2} ELSE {}

\* ------------------------------------------------------- the dict
Entry(value, timestamp) == [value |-> value, timestamp |-> timestamp]

\* del self._cache[key] for every key of S / pop / clear
Remove(c, S) == [k \in (DOMAIN c) \ S |-> c[k]]

\* self._cache[key] = (result, now)
Store(c, key, result, now) ==
  [k \in (DOMAIN c) \cup {key} |-> IF k = key THEN Entry(result, now) ELSE c[k]]

\* ------------------------------------------------------- cleanup
\* Mutant: the sweep keeps an entry whose age is exactly max_age.
ExpiredKeys_Strict(c, now) ==
  {key \in DOMAIN c : now - c[key].timestamp > max_age}

\* The expired_keys list of cleanup(), judged at cleanup's own clock reading.
ExpiredKeys(c, now) ==
  {key \in DOMAIN c : now - c[key].timestamp >= max_age}

\* The dict after cleanup()'s deletions.
CleanupCache(c, now) == Remove(c, ExpiredKeys(c, now))

\* Mutant: the sweep waits until more than cleanup_interval has passed.
CleanupDue_Strict(now) == now - last_cleanup > cleanup_interval

\* _maybe_cleanup's test.
CleanupDue(now) == now - last_cleanup >= cleanup_interval

\* ------------------------------------------------------- lookups
\* Mutant: an entry stamped later than the reading is not returned.
Fresh_FutureIsStale(c, key, now) ==
  /\ key \in DOMAIN c
  /\ now - c[key].timestamp < max_age
  /\ now >= c[key].timestamp

\* The hit test of get*: key in self._cache and now - timestamp < max_age.
Fresh(c, key, now) ==
  /\ key \in DOMAIN c
  /\ now - c[key].timestamp < max_age

\* Mutant: an entry of age exactly max_age still counts as present.
ContainsAt_Inclusive(key, now) ==
  IF key \notin DOMAIN cache
    THEN FALSE
    ELSE now - cache[key].timestamp <= max_age

\* __contains__
ContainsAt(key, now) ==
  IF key \notin DOMAIN cache
    THEN FALSE
    ELSE now - cache[key].timestamp < max_age

\* Mutant: len() counts only the entries contains accepts.
Len_LiveOnly == Cardinality({k \in DOMAIN cache : ContainsAt(k, clock)})

\* __len__
Len == Cardinality(DOMAIN cache)

\* ------------------------------------------------------- observation
\* op, key, fn: the call and the callable handed to it; now: its first clock
\* reading; swept: cleanup() ran in it; computed: the callable was invoked,
\* with args; raised: the callable raised; ret: {} or {the value returned}
\* (for cleanup, invalidate and clear, which return nothing: the keys whose
\* entries the call deleted; for the max_age setter: the value replaced).
Obs(op, key, fn, args, now, swept, computed, raised, ret) ==
  [op |-> op, key |-> key, fn |-> fn, args |-> args, now |-> now,
   swept |-> swept, computed |-> computed, raised |-> raised, ret |-> ret]

NoneAt == [k \in Keys |-> {}]

\* ------------------------------------------------------- decorators
Items(kwargs) == {kwargs[i] : i \in DOMAIN kwargs}

\* Python's str order on the keyword names in use.
NameLess(a, b) ==
  \E i \in DOMAIN KwNames, j \in DOMAIN KwNames :
    KwNames[i] = a /\ KwNames[j] = b /\ i < j

\* tuple(sorted(kwargs.items())): the (name, value) pairs in ascending order
\* of name (a keyword name occurs once in a call).
SortedItems(kwargs) ==
  [i \in DOMAIN kwargs |->
     CHOOSE it \in Items(kwargs) :
       Cardinality({o \in Items(kwargs) : NameLess(o[1], it[1])}) = i - 1]

\* Mutant: the key is the positional tuple alone.
DecoKey_ArgsOnly(call) == <<call.args, <<>> >>

\* key = (args, tuple(sorted(kwargs.items())))
DecoKey(call) == <<call.args, SortedItems(call.kwargs)>>

\* The keyword arguments the wrapped function receives: name -> value.
KwMap(kwargs) ==
  [n \in {it[1] : it \in Items(kwargs)} |->
     CHOOSE v \in {it[2] : it \in Items(kwargs)} : <<n, v>> \in Items(kwargs)]

\* What func(*args, **kwargs) returns when invoked at time t and it returns:
\* a value that tells the function, the arguments received and the invocation.
WrappedResult(func, call, t) ==
  [by |-> func, args |-> call.args, kw |-> KwMap(call.kwargs), at |-> t]

\* Mutant: one dict per decorator object, shared by the functions it wraps.
CacheOf_PerDecorator(func) == "F"

\* The dict a wrapper closes over: decorator(func) makes a new one each time
\* it is applied.
CacheOf(func) == func

\* Observation of the last wrapper step.  op: "call" (a wrapper call that ran to its
\* end), "await" (a wrapper call now suspended in await func(...)), "resume"
\* (a suspended call that ended); computed: the number of invocations of the
\* wrapped function the step made; outcome: "hit", "returned", "raised",
\* "cancelled" or "suspended"; ret: {} or {the value returned}.
DecoObs(op, task, func, call, now, computed, outcome, ret) ==
  [op |-> op, task |-> task, func |-> func, call |-> call, now |-> now,
   computed |-> computed, outcome |-> outcome, ret |-> ret, over |-> {}]

\* The timestamp of the entry that a store under `key` replaces, if any.
Overwritten(c, key) == IF key \in DOMAIN c THEN {c[key].timestamp} ELSE {}

\* The observation of a step that stored under `key` in the dict c: `over`
\* keeps the timestamp of the entry it replaced.
Replacing(obs, c, key) == [obs EXCEPT !.over = Overwritten(c, key)]

NotAwaiting == [func |-> NoFn, call |-> NoCall, now |-> 0]

\* Mutant: an entry of age exactly max_age is still returned.
DecoFresh_Inclusive(c, key, now) ==
  /\ key \in DOMAIN c
  /\ now - c[key].timestamp <= deco_max_age

\* The hit test of the wrappers: key in cache and current_time - timestamp <
\* max_age.
DecoFresh(c, key, now) ==
  /\ key \in DOMAIN c
  /\ now - c[key].timestamp < deco_max_age

\* No decorated function exists.
DecoIdle ==
  /\ deco_kind = "memoize_sync"
  /\ deco_max_age = 0
  /\ plan = [F |-> {}, G |-> {}, tasks |-> {}]
  /\ dcache = [f \in Funcs |-> <<>>]
  /\ awaiting = [t \in Tasks |-> NotAwaiting]
  /\ dlast = DecoObs("init", NoTask, NoFn, NoCall, 0, 0, "-", {})

\* ------------------------------------------------------- key helpers
\* Bit i of the Python integer n (n within the signed 32-bit range): Python
\* integers behave as two's complement numbers of unbounded width.
Bit(n, i) ==
  IF i >= 31 THEN (IF n < 0 THEN 1 ELSE 0) ELSE (n \div (2 ^ i)) % 2

\* The integer n as its bits.
Bits(n) == [i \in BitPositions |-> Bit(n, i)]

\* b << k
Shl(b, k) == [i \in BitPositions |-> IF i < k THEN 0 ELSE b[i - k]]

\* b & c
BitAnd(b, c) == [i \in BitPositions |-> IF b[i] = 1 /\ c[i] = 1 THEN 1 ELSE 0]

\* b | c
BitOr(b, c) == [i \in BitPositions |-> IF b[i] = 1 \/ c[i] = 1 THEN 1 ELSE 0]

\* 0xFFFFFFFF (n = 32) and 0xFFFFFF (n = 24): the n low bits set.
LowMask(n) == [i \in BitPositions |-> IF i < n THEN 1 ELSE 0]

\* Mutant: y is not masked.
pos_key_Unmasked(x, y) == BitOr(Shl(Bits(x), 32), Bits(y))

\* (x << 32) | (y & 0xFFFFFFFF)
pos_key(x, y) == BitOr(Shl(Bits(x), 32), BitAnd(Bits(y), LowMask(32)))

\* (agent_id << 48) | (x << 24) | (y & 0xFFFFFF)
agent_pos_key(agent_id, x, y) ==
  BitOr(BitOr(Shl(Bits(agent_id), 48), Shl(Bits(x), 24)),
        BitAnd(Bits(y), LowMask(24)))

\* Mutant: the key forgets the order of the values.
cache_key_Unordered(args) == {args[i] : i \in DOMAIN args}

\* cache_key(*args): return args
cache_key(args) == args

\* The argument tuples handed to cache_key.
KeyTuples == UNION {[1 .. n -> Hashables] : n \in KeyLengths}

NoArgs == [fn |-> NoFn, a |-> <<>>, b |-> <<>>]

\* No key helper is called.
KeysIdle == kin = NoArgs /\ kout = <<>>

\* A setting of last_cleanup: by the constructor ("init"), by a cleanup() the
\* caller made ("manual") or by one _maybe_cleanup made ("auto"); `now` is
\* the clock reading of the call that made it, `at` the value assigned.
Sweep(kind, now, at) == [kind |-> kind, now |-> now, at |-> at]

\* Only the constructor has set last_cleanup, at time 0.
NoSweeps == [prev |-> Sweep("init", 0, 0), latest |-> Sweep("init", 0, 0)]

\* A get* call that has entered compute: `status` is "computing" until
\* compute ends, then "returned" or "raised"; op, key, fn, args: the call;
\* now: its clock reading; swept: its opportunistic sweep ran; res: what
\* compute yields; over: the entry of key that its store replaced, {} or
\* {entry}.
Frame(status, op, key, fn, args, now, swept, res, over) ==
  [status |-> status, op |-> op, key |-> key, fn |-> fn, args |-> args,
   now |-> now, swept |-> swept, res |-> res, over |-> over]

\* No get* call has entered compute and not left it in the same step.
NoFrame == Frame("none", "-", NoKey, NoFn, <<>>, 0, FALSE, {}, {})

\* The sweeps are not recorded and every call runs to its end in one step.
SideIdle == sweeps = NoSweeps /\ frame = NoFrame

\* ------------------------------------------------------- Init
\* TimedMemoCache(max_age, cleanup_interval): neither argument is validated.
Init ==
  /\ clock = 0
  /\ cache = [k \in {} |-> Entry(0, 0)]
  /\ max_age \in AgeValues
  /\ cleanup_interval \in IntervalValues
  /\ last_cleanup = clock
  /\ last = Obs("init", NoKey, NoFn, <<>>, clock, FALSE, FALSE, FALSE, {})
  /\ computed_at = NoneAt
  /\ DecoIdle
  /\ KeysIdle
  /\ SideIdle

\* ------------------------------------------------------- get*
\* Mutant: the result is returned but never stored.
GetStore_Skipped(c, key, result, now) == c

\* Mutant: the store stamps every entry of the dict with the call's reading.
GetStore_Restamps(c, key, result, now) ==
  [k \in (DOMAIN c) \cup {key} |->
     IF k = key THEN Entry(result, now) ELSE Entry(c[k].value, now)]

\* Mutant: the entry is stamped with the time at which compute returned.
GetStore_AtCompletion(c, key, result, now) == Store(c, key, result, clock')

\* The entry get* leaves for `key` after a miss whose compute returned.
GetStore(c, key, result, now) == Store(c, key, result, now)

\* What a hit returns.
HitValue(c, key) == c[key].value

\* The body shared by get, get_with_arg and get_with_2_args.  `res` is what
\* the compute call yields if it is made; `drift` is how far the clock has
\* moved when cleanup() reads it (one of `drifts`), `dur` how long compute
\* runs.
GetBodyWith(drifts, op, key, fn, args, res) ==
  LET now == clock
      due == CleanupDue(now)
  IN  \E drift \in (IF due THEN drifts ELSE {0}) :
        LET sweepNow == now + drift
            c1 == IF due THEN CleanupCache(cache, sweepNow) ELSE cache
            hit == Fresh(c1, key, now)
            stored == ~hit /\ res # {}
        IN  \E dur \in (IF hit THEN {0} ELSE Drifts) :
              /\ now + drift + dur <= MaxTime
              /\ clock' = now + drift + dur
              /\ last_cleanup' = IF due THEN sweepNow ELSE last_cleanup
              /\ cache' = IF stored
                            THEN GetStore(c1, key, CHOOSE v \in res : TRUE, now)
                            ELSE c1
              /\ last' = Obs(op, key, fn, IF hit THEN <<>> ELSE args, now, due,
                             ~hit, ~hit /\ res = {},
                             IF hit THEN {HitValue(c1, key)} ELSE res)
              /\ UNCHANGED <<max_age, cleanup_interval>>

\* The same with the clock moving by at most one tick before cleanup() reads
\* it.
GetBody(op, key, fn, args, res) == GetBodyWith(Drifts, op, key, fn, args, res)

Get(key, compute) ==
  GetBody("get", key, compute, <<>>, Call0(compute))

\* Mutant: get_with_arg stores and returns its argument, not compute(arg).
GetWithArg_ArgAsResult(key, arg, compute) ==
  GetBody("get_with_arg", key, compute, <<arg>>, {arg})

GetWithArg(key, arg, compute) ==
  GetBody("get_with_arg", key, compute, <<arg>>, Call1(compute, arg))

GetWith2Args(key, arg1, arg2, compute) ==
  GetBody("get_with_2_args", key, compute, <<arg1, arg2>>, Call2(compute, arg1, arg2))

\* ------------------------------------------------------- the rest
\* Mutant: a manual cleanup() deletes the expired entries but leaves
\* last_cleanup as it was.
Cleanup_KeepsSchedule ==
  LET now == clock
  IN  /\ cache' = CleanupCache(cache, now)
      /\ last' = Obs("cleanup", NoKey, NoFn, <<>>, now, TRUE, FALSE, FALSE,
                     ExpiredKeys(cache, now))
      /\ UNCHANGED <<clock, max_age, cleanup_interval, last_cleanup>>

Cleanup ==
  LET now == clock
  IN  /\ cache' = CleanupCache(cache, now)
      /\ last_cleanup' = now
      /\ last' = Obs("cleanup", NoKey, NoFn, <<>>, now, TRUE, FALSE, FALSE,
                     ExpiredKeys(cache, now))
      /\ UNCHANGED <<clock, max_age, cleanup_interval>>

\* Mutant: invalidate drops every entry.
Invalidate_All(key) ==
  /\ cache' = Remove(cache, DOMAIN cache)
  /\ last' = Obs("invalidate", key, NoFn, <<>>, clock, FALSE, FALSE, FALSE,
                 {key} \cap DOMAIN cache)
  /\ UNCHANGED <<clock, max_age, cleanup_interval, last_cleanup>>

Invalidate(key) ==
  /\ cache' = Remove(cache, {key})
  /\ last' = Obs("invalidate", key, NoFn, <<>>, clock, FALSE, FALSE, FALSE,
                 {key} \cap DOMAIN cache)
  /\ UNCHANGED <<clock, max_age, cleanup_interval, last_cleanup>>

\* Mutant: clear drops only the expired entries.
Clear_ExpiredOnly ==
  /\ cache' = CleanupCache(cache, clock)
  /\ last' = Obs("clear", NoKey, NoFn, <<>>, clock, FALSE, FALSE, FALSE,
                 DOMAIN cache)
  /\ UNCHANGED <<clock, max_age, cleanup_interval, last_cleanup>>

Clear ==
  /\ cache' = Remove(cache, DOMAIN cache)
  /\ last' = Obs("clear", NoKey, NoFn, <<>>, clock, FALSE, FALSE, FALSE,
                 DOMAIN cache)
  /\ UNCHANGED <<clock, max_age, cleanup_interval, last_cleanup>>

LenOp ==
  /\ last' = Obs("len", NoKey, NoFn, <<>>, clock, FALSE, FALSE, FALSE, {Len})
  /\ UNCHANGED <<clock, cache, max_age, cleanup_interval, last_cleanup>>

Contains(key) ==
  /\ last' = Obs("contains", key, NoFn, <<>>, clock, FALSE, FALSE, FALSE,
                 {ContainsAt(key, clock)})
  /\ UNCHANGED <<clock, cache, max_age, cleanup_interval, last_cleanup>>

\* Mutant: the setter also stamps every entry with the current time.
SetMaxAge_Restamps(value) ==
  /\ max_age' = value
  /\ cache' = [k \in DOMAIN cache |-> Entry(cache[k].value, clock)]
  /\ last' = Obs("set_max_age", NoKey, NoFn, <<value>>, clock, FALSE, FALSE,
                 FALSE, {max_age})
  /\ UNCHANGED <<clock, cleanup_interval, last_cleanup>>

\* Mutant: the setter rejects a non-positive value.
SetMaxAge_Validates(value) ==
  /\ value > 0
  /\ max_age' = value
  /\ last' = Obs("set_max_age", NoKey, NoFn, <<value>>, clock, FALSE, FALSE,
                 FALSE, {max_age})
  /\ UNCHANGED <<clock, cache, cleanup_interval, last_cleanup>>

\* cache.max_age = value.  The observation keeps the value assigned (args) and
\* the value it replaced (ret).
SetMaxAge(value) ==
  /\ max_age' = value
  /\ last' = Obs("set_max_age", NoKey, NoFn, <<value>>, clock, FALSE, FALSE,
                 FALSE, {max_age})
  /\ UNCHANGED <<clock, cache, cleanup_interval, last_cleanup>>

\* The wall clock advances between two calls.
Tick ==
  /\ clock < MaxTime
  /\ clock' = clock + 1
  /\ last' = Obs("tick", NoKey, NoFn, <<>>, clock, FALSE, FALSE, FALSE, {})
  /\ UNCHANGED <<cache, max_age, cleanup_interval, last_cleanup>>

GetOps == {"get", "get_with_arg", "get_with_2_args"}

\* History of compute invocations: per key the lookup time of the last compute
\* that returned, forgotten when the key is invalidated, the cache is cleared,
\* max_age is changed or a compute for the key raises.
Track ==
  computed_at' =
    IF last'.op \in GetOps /\ last'.computed
      THEN [computed_at EXCEPT
              ![last'.key] = IF last'.raised THEN {} ELSE {last'.now}]
    ELSE IF last'.op = "invalidate"
      THEN [computed_at EXCEPT ![last'.key] = {}]
    ELSE IF last'.op = "clear" \/ max_age' # max_age
      THEN NoneAt
    ELSE computed_at

\* With `tracked` the history of compute invocations is recorded.
History(tracked) == IF tracked THEN Track ELSE UNCHANGED computed_at

\* What a step of the TimedMemoCache leaves alone: the decorated functions.
Rest(tracked) == History(tracked) /\ UNCHANGED <<decoVars, keyVars, sideVars>>

\* One call of the cache's interface, or the clock advancing between calls.
Step(tracked) ==
  \/ \E key \in Keys, compute \in Computes0 :
       Get(key, compute) /\ Rest(tracked)
  \/ \E key \in Keys, arg \in Args, compute \in Computes1 :
       GetWithArg(key, arg, compute) /\ Rest(tracked)
  \/ \E key \in Keys, args \in ArgPairs, compute \in Computes2 :
       GetWith2Args(key, args[1], args[2], compute) /\ Rest(tracked)
  \/ Cleanup /\ Rest(tracked)
  \/ \E key \in Keys : Invalidate(key) /\ Rest(tracked)
  \/ Clear /\ Rest(tracked)
  \/ LenOp /\ Rest(tracked)
  \/ \E key \in Keys : Contains(key) /\ Rest(tracked)
  \/ \E value \in AgeValues : SetMaxAge(value) /\ Rest(tracked)
  \/ Tick /\ Rest(tracked)

Next == Step(FALSE)

NextTracked == Step(TRUE)

Spec == Init /\ [][Next]_vars

\* The same program, with the history of compute invocations recorded.
SpecTracked == Init /\ [][NextTracked]_vars

\* ------------------------------------------------------- the wrappers
\* F and G are wrapped by one decorator object, made by memoize(max_age) or
\* memoize_sync(max_age); no TimedMemoCache is in use.
InitDeco ==
  /\ clock = 0
  /\ cache = [k \in {} |-> Entry(0, 0)]
  /\ max_age = 0
  /\ cleanup_interval = 0
  /\ last_cleanup = clock
  /\ last = Obs("init", NoKey, NoFn, <<>>, clock, FALSE, FALSE, FALSE, {})
  /\ computed_at = NoneAt
  /\ deco_kind \in DecoKinds
  /\ deco_max_age \in DecoAges
  /\ plan \in CallPlans
  /\ dcache = [f \in Funcs |-> <<>>]
  /\ awaiting = [t \in Tasks |-> NotAwaiting]
  /\ dlast = DecoObs("init", NoTask, NoFn, NoCall, 0, 0, "-", {})
  /\ KeysIdle
  /\ SideIdle

\* Mutant: the result is stamped one tick after the call's clock reading.
DecoStore_Late(c, key, result, now) == Store(c, key, result, now + 1)

\* Mutant: the store first drops the entries that have expired.
DecoStore_Evicts(c, key, result, now) ==
  Store(Remove(c, {k \in DOMAIN c : now - c[k].timestamp >= deco_max_age}),
        key, result, now)

\* cache[key] = (result, current_time)
DecoStore(c, key, result, now) == Store(c, key, result, now)

\* A call of the memoize_sync wrapper.  `outcome` is what the wrapped function
\* does if it is invoked; it runs for `dur` ticks.
SyncCall(func, call, outcome) ==
  LET key == DecoKey(call)
      current_time == clock
      c == dcache[CacheOf(func)]
  IN  /\ deco_kind = "memoize_sync"
      /\ IF DecoFresh(c, key, current_time)
           THEN /\ dlast' = DecoObs("call", NoTask, func, call, current_time, 0,
                                    "hit", {c[key].value})
                /\ UNCHANGED <<clock, dcache>>
           ELSE \E dur \in Drifts :
                  /\ current_time + dur <= MaxTime
                  /\ clock' = current_time + dur
                  /\ IF outcome = "returned"
                       THEN LET result == WrappedResult(func, call, current_time)
                            IN  /\ dcache' = [dcache EXCEPT ![CacheOf(func)] =
                                                DecoStore(c, key, result, current_time)]
                                /\ dlast' = Replacing(
                                     DecoObs("call", NoTask, func, call,
                                             current_time, 1, outcome, {result}),
                                     c, key)
                       ELSE /\ dlast' = DecoObs("call", NoTask, func, call,
                                                current_time, 1, outcome, {})
                            /\ UNCHANGED dcache
      /\ UNCHANGED <<deco_kind, deco_max_age, plan, awaiting>>

\* Mutant: a call waits while another task is computing the same key.
AsyncCall_Dedup(task, func, call) ==
  LET key == DecoKey(call)
      current_time == clock
      c == dcache[CacheOf(func)]
  IN  /\ deco_kind = "memoize"
      /\ awaiting[task] = NotAwaiting
      /\ \A other \in Tasks :
           awaiting[other].func # func \/ DecoKey(awaiting[other].call) # key
      /\ IF DecoFresh(c, key, current_time)
           THEN /\ dlast' = DecoObs("call", task, func, call, current_time, 0,
                                    "hit", {c[key].value})
                /\ UNCHANGED awaiting
           ELSE /\ awaiting' = [awaiting EXCEPT ![task] =
                                  [func |-> func, call |-> call, now |-> current_time]]
                /\ dlast' = DecoObs("await", task, func, call, current_time, 1,
                                    "suspended", {})
      /\ UNCHANGED <<clock, deco_kind, deco_max_age, plan, dcache>>

\* A call of the memoize wrapper up to its return on a hit, or up to its
\* suspension in `await func(*args, **kwargs)`.
AsyncCall(task, func, call) ==
  LET key == DecoKey(call)
      current_time == clock
      c == dcache[CacheOf(func)]
  IN  /\ deco_kind = "memoize"
      /\ awaiting[task] = NotAwaiting
      /\ IF DecoFresh(c, key, current_time)
           THEN /\ dlast' = DecoObs("call", task, func, call, current_time, 0,
                                    "hit", {c[key].value})
                /\ UNCHANGED awaiting
           ELSE /\ awaiting' = [awaiting EXCEPT ![task] =
                                  [func |-> func, call |-> call, now |-> current_time]]
                /\ dlast' = DecoObs("await", task, func, call, current_time, 1,
                                    "suspended", {})
      /\ UNCHANGED <<clock, deco_kind, deco_max_age, plan, dcache>>

\* Mutant: the wrapper writes an entry however the awaited computation ends.
AsyncResume_AlwaysStores(task, outcome) ==
  LET a == awaiting[task]
      result == WrappedResult(a.func, a.call, a.now)
  IN  /\ deco_kind = "memoize"
      /\ a # NotAwaiting
      /\ awaiting' = [awaiting EXCEPT ![task] = NotAwaiting]
      /\ dcache' = [dcache EXCEPT ![CacheOf(a.func)] =
                      DecoStore(dcache[CacheOf(a.func)], DecoKey(a.call), result, a.now)]
      /\ dlast' = DecoObs("resume", task, a.func, a.call, a.now, 0, outcome,
                          IF outcome = "returned" THEN {result} ELSE {})
      /\ UNCHANGED <<clock, deco_kind, deco_max_age, plan>>

\* Mutant: a returning call leaves alone an entry newer than its own reading.
AsyncResume_KeepsNewer(task, outcome) ==
  LET a == awaiting[task]
      key == DecoKey(a.call)
      c == dcache[CacheOf(a.func)]
      result == WrappedResult(a.func, a.call, a.now)
  IN  /\ deco_kind = "memoize"
      /\ a # NotAwaiting
      /\ awaiting' = [awaiting EXCEPT ![task] = NotAwaiting]
      /\ dcache' = IF outcome = "returned"
                      /\ \A ts \in Overwritten(c, key) : ts <= a.now
                     THEN [dcache EXCEPT ![CacheOf(a.func)] =
                             DecoStore(c, key, result, a.now)]
                     ELSE dcache
      /\ dlast' = DecoObs("resume", task, a.func, a.call, a.now, 0, outcome,
                          IF outcome = "returned" THEN {result} ELSE {})
      /\ UNCHANGED <<clock, deco_kind, deco_max_age, plan>>

\* The awaited computation of a suspended wrapper call ends: it returns, it
\* raises, or the task is cancelled while suspended on it.
AsyncResume(task, outcome) ==
  LET a == awaiting[task]
      key == DecoKey(a.call)
      c == dcache[CacheOf(a.func)]
  IN  /\ deco_kind = "memoize"
      /\ a # NotAwaiting
      /\ awaiting' = [awaiting EXCEPT ![task] = NotAwaiting]
      /\ IF outcome = "returned"
           THEN LET result == WrappedResult(a.func, a.call, a.now)
                IN  /\ dcache' = [dcache EXCEPT ![CacheOf(a.func)] =
                                    DecoStore(c, key, result, a.now)]
                    /\ dlast' = Replacing(
                                  DecoObs("resume", task, a.func, a.call, a.now,
                                          0, outcome, {result}),
                                  c, key)
           ELSE /\ dlast' = DecoObs("resume", task, a.func, a.call, a.now, 0,
                                    outcome, {})
                /\ UNCHANGED dcache
      /\ UNCHANGED <<clock, deco_kind, deco_max_age, plan>>

\* The wall clock advances between two wrapper steps.
DecoTick ==
  /\ clock < MaxTime
  /\ clock' = clock + 1
  /\ UNCHANGED <<deco_kind, deco_max_age, plan, dcache, awaiting, dlast>>

NextDeco ==
  \/ \E func \in Funcs, outcome \in {"returned", "raised"} :
       \E call \in plan[func] :
         SyncCall(func, call, outcome) /\ UNCHANGED <<cacheVars, keyVars, sideVars>>
  \/ \E task \in plan.tasks, func \in Funcs :
       \E call \in plan[func] :
         AsyncCall(task, func, call) /\ UNCHANGED <<cacheVars, keyVars, sideVars>>
  \/ \E task \in plan.tasks, outcome \in {"returned", "raised", "cancelled"} :
       AsyncResume(task, outcome) /\ UNCHANGED <<cacheVars, keyVars, sideVars>>
  \/ DecoTick /\ UNCHANGED <<cacheVars, keyVars, sideVars>>

\* The decorated functions F and G called by the tasks.
SpecDeco == InitDeco /\ [][NextDeco]_vars


\* ------------------------------------------------------- key helper runs
\* A program about to call pos_key, agent_pos_key or cache_key twice: with
\* the arguments a and with the arguments b.  Nothing else is in use.
InitKeys ==
  /\ clock = 0
  /\ cache = [k \in {} |-> Entry(0, 0)]
  /\ max_age = 0
  /\ cleanup_interval = 0
  /\ last_cleanup = clock
  /\ last = Obs("init", NoKey, NoFn, <<>>, clock, FALSE, FALSE, FALSE, {})
  /\ computed_at = NoneAt
  /\ DecoIdle
  /\ kin \in [fn : {"pos_key"},
              a : Coords32 \X Coords32, b : Coords32 \X Coords32]
           \cup [fn : {"agent_pos_key"},
                 a : AgentIds \X Coords24 \X Coords24,
                 b : AgentIds \X Coords24 \X Coords24]
           \cup [fn : {"cache_key"}, a : KeyTuples, b : KeyTuples]
  /\ kout = <<>>
  /\ SideIdle

\* key_a = pos_key(*a); key_b = pos_key(*b)
CallPosKey ==
  /\ kin.fn = "pos_key" /\ kout = <<>>
  /\ kout' = <<pos_key(kin.a[1], kin.a[2]), pos_key(kin.b[1], kin.b[2])>>
  /\ UNCHANGED <<clock, cacheVars, decoVars, kin, sideVars>>

\* key_a = agent_pos_key(*a); key_b = agent_pos_key(*b)
CallAgentPosKey ==
  /\ kin.fn = "agent_pos_key" /\ kout = <<>>
  /\ kout' = <<agent_pos_key(kin.a[1], kin.a[2], kin.a[3]),
               agent_pos_key(kin.b[1], kin.b[2], kin.b[3])>>
  /\ UNCHANGED <<clock, cacheVars, decoVars, kin, sideVars>>

\* key_a = cache_key(*a); key_b = cache_key(*b); d = {key_a: "value"}; the
\* third result is d.get(key_b).
CallCacheKey ==
  /\ kin.fn = "cache_key" /\ kout = <<>>
  /\ LET key_a == cache_key(kin.a)
         key_b == cache_key(kin.b)
         d == Store(<<>>, key_a, "value", 0)
     IN  kout' = <<key_a, key_b,
                  IF key_b \in DOMAIN d THEN {d[key_b].value} ELSE {}>>
  /\ UNCHANGED <<clock, cacheVars, decoVars, kin, sideVars>>

NextKeys == CallPosKey \/ CallAgentPosKey \/ CallCacheKey

\* The key helpers applied to pairs of argument tuples.
SpecKeys == InitKeys /\ [][NextKeys]_vars

\* ------------------------------------------------------- fixed max_age
\* The positive max_age and cleanup_interval of a cache whose max_age is never
\* reassigned, and how far the clock may have moved when cleanup() reads it.
FixedAges == {1, 2}
FixedIntervals == {1, 2}
LongDrifts == {0, 1, 2}

\* TimedMemoCache(max_age, cleanup_interval) with both positive.
InitFixed ==
  /\ clock = 0
  /\ cache = [k \in {} |-> Entry(0, 0)]
  /\ max_age \in FixedAges
  /\ cleanup_interval \in FixedIntervals
  /\ last_cleanup = clock
  /\ last = Obs("init", NoKey, NoFn, <<>>, clock, FALSE, FALSE, FALSE, {})
  /\ computed_at = NoneAt
  /\ DecoIdle
  /\ KeysIdle
  /\ SideIdle

\* History of the assignments to last_cleanup: every cleanup() is recorded
\* with the reading of the call that ran it and the value it assigned.
TrackSweeps ==
  sweeps' =
    IF last'.swept
      THEN [prev |-> sweeps.latest,
            latest |-> Sweep(IF last'.op = "cleanup" THEN "manual" ELSE "auto",
                             last'.now, last_cleanup')]
      ELSE sweeps

\* What a step of this cache leaves alone.
RestFixed == TrackSweeps /\ UNCHANGED <<computed_at, decoVars, keyVars, frame>>

\* One call of the cache's interface except the max_age setter, or the clock
\* advancing between calls.
NextFixed ==
  \/ \E key \in Keys, compute \in Computes0 :
       /\ GetBodyWith(LongDrifts, "get", key, compute, <<>>, Call0(compute))
       /\ RestFixed
  \/ \E key \in Keys, arg \in Args, compute \in Computes1 :
       /\ GetBodyWith(LongDrifts, "get_with_arg", key, compute, <<arg>>,
                      Call1(compute, arg))
       /\ RestFixed
  \/ \E key \in Keys, args \in ArgPairs, compute \in Computes2 :
       /\ GetBodyWith(LongDrifts, "get_with_2_args", key, compute, args,
                      Call2(compute, args[1], args[2]))
       /\ RestFixed
  \/ Cleanup /\ RestFixed
  \/ \E key \in Keys : Invalidate(key) /\ RestFixed
  \/ Clear /\ RestFixed
  \/ LenOp /\ RestFixed
  \/ \E key \in Keys : Contains(key) /\ RestFixed
  \/ Tick /\ RestFixed

SpecFixed == InitFixed /\ [][NextFixed]_vars

\* ------------------------------------------------------- no validation
\* Values of max_age and cleanup_interval a caller may pass, the non-positive
\* ones included.
LooseAges == {-1, 0, 1}
LooseIntervals == {-1, 1}

\* TimedMemoCache(max_age, cleanup_interval): the arguments are stored as
\* they come.
InitLoose ==
  /\ clock = 0
  /\ cache = [k \in {} |-> Entry(0, 0)]
  /\ max_age \in LooseAges
  /\ cleanup_interval \in LooseIntervals
  /\ last_cleanup = clock
  /\ last = Obs("init", NoKey, NoFn, <<>>, clock, FALSE, FALSE, FALSE, {})
  /\ computed_at = NoneAt
  /\ DecoIdle
  /\ KeysIdle
  /\ SideIdle

\* One call of the cache's interface, or the clock advancing between calls.
NextLoose ==
  \/ \E key \in Keys, compute \in Computes0 :
       Get(key, compute) /\ Rest(FALSE)
  \/ \E key \in Keys, arg \in Args, compute \in Computes1 :
       GetWithArg(key, arg, compute) /\ Rest(FALSE)
  \/ \E key \in Keys, args \in ArgPairs, compute \in Computes2 :
       GetWith2Args(key, args[1], args[2], compute) /\ Rest(FALSE)
  \/ Cleanup /\ Rest(FALSE)
  \/ \E key \in Keys : Invalidate(key) /\ Rest(FALSE)
  \/ Clear /\ Rest(FALSE)
  \/ LenOp /\ Rest(FALSE)
  \/ \E key \in Keys : Contains(key) /\ Rest(FALSE)
  \/ \E value \in LooseAges : SetMaxAge(value) /\ Rest(FALSE)
  \/ Tick /\ Rest(FALSE)

SpecLoose == InitLoose /\ [][NextLoose]_vars

\* ------------------------------------------------------- either cache
\* A program that uses a TimedMemoCache, or one that calls the decorated
\* functions F and G.
InitStamp == Init \/ InitDeco

\* The program is the one that uses the TimedMemoCache.
CacheInUse == plan.tasks = {}

\* A lookup of the TimedMemoCache, a manual sweep, a membership test, a step
\* of a wrapper, or the clock advancing.
NextStamp ==
  \/ \E key \in Keys, compute \in Computes0 :
       CacheInUse /\ Get(key, compute) /\ Rest(FALSE)
  \/ \E key \in Keys, arg \in Args, compute \in Computes1 :
       CacheInUse /\ GetWithArg(key, arg, compute) /\ Rest(FALSE)
  \/ \E key \in Keys, args \in ArgPairs, compute \in Computes2 :
       CacheInUse /\ GetWith2Args(key, args[1], args[2], compute) /\ Rest(FALSE)
  \/ CacheInUse /\ Cleanup /\ Rest(FALSE)
  \/ \E key \in Keys : CacheInUse /\ Contains(key) /\ Rest(FALSE)
  \/ CacheInUse /\ Tick /\ Rest(FALSE)
  \/ \E func \in Funcs, outcome \in {"returned", "raised"} :
       \E call \in plan[func] :
         SyncCall(func, call, outcome) /\ UNCHANGED <<cacheVars, keyVars, sideVars>>
  \/ \E task \in plan.tasks, func \in Funcs :
       \E call \in plan[func] :
         AsyncCall(task, func, call) /\ UNCHANGED <<cacheVars, keyVars, sideVars>>
  \/ \E task \in plan.tasks, outcome \in {"returned", "raised", "cancelled"} :
       AsyncResume(task, outcome) /\ UNCHANGED <<cacheVars, keyVars, sideVars>>
  \/ ~CacheInUse /\ DecoTick /\ UNCHANGED <<cacheVars, keyVars, sideVars>>

SpecStamp == InitStamp /\ [][NextStamp]_vars

\* ------------------------------------------------------- the clock set back
\* time.time() is the wall clock: between two calls it may be set back.
TickBack ==
  /\ clock > 0
  /\ clock' = clock - 1
  /\ last' = Obs("tick_back", NoKey, NoFn, <<>>, clock, FALSE, FALSE, FALSE, {})
  /\ UNCHANGED <<cache, max_age, cleanup_interval, last_cleanup>>

\* A lookup, a manual sweep or a membership test, or the clock moving between
\* calls, forwards or backwards.
NextBackward ==
  \/ \E key \in Keys, compute \in Computes0 :
       Get(key, compute) /\ Rest(FALSE)
  \/ \E key \in Keys, arg \in Args, compute \in Computes1 :
       GetWithArg(key, arg, compute) /\ Rest(FALSE)
  \/ \E key \in Keys, args \in ArgPairs, compute \in Computes2 :
       GetWith2Args(key, args[1], args[2], compute) /\ Rest(FALSE)
  \/ Cleanup /\ Rest(FALSE)
  \/ \E key \in Keys : Contains(key) /\ Rest(FALSE)
  \/ Tick /\ Rest(FALSE)
  \/ TickBack /\ Rest(FALSE)

\* TimedMemoCache(max_age=1, cleanup_interval) with a positive interval.
InitBackward == InitFixed /\ max_age = 1

\* A cache with positive max_age and cleanup_interval under a wall clock that
\* can be set back.
SpecBackward == InitBackward /\ [][NextBackward]_vars

\* ------------------------------------------------------- re-entry
\* The entry stored under key in the dict c: {} or {entry}.
StoredAt(c, key) == IF key \in DOMAIN c THEN {c[key]} ELSE {}

\* get* up to the call of compute, taken apart from its end so that compute
\* can call the cache: now is read, the sweep runs if due, the lookup misses
\* and compute starts.  Nothing is locked.
GetBegin(op, key, fn, args, res) ==
  LET now == clock
      due == CleanupDue(now)
  IN  \E drift \in (IF due THEN Drifts ELSE {0}) :
        LET sweepNow == now + drift
            c1 == IF due THEN CleanupCache(cache, sweepNow) ELSE cache
        IN  /\ frame = NoFrame
            /\ sweepNow <= MaxTime
            /\ ~Fresh(c1, key, now)
            /\ clock' = sweepNow
            /\ last_cleanup' = IF due THEN sweepNow ELSE last_cleanup
            /\ cache' = c1
            /\ frame' = Frame("computing", op, key, fn, args, now, due, res, {})
            /\ last' = Obs("compute", key, fn, args, now, due, TRUE, FALSE, {})
            /\ UNCHANGED <<max_age, cleanup_interval>>

\* Mutant: the store is skipped when the key has an entry stamped later than
\* the call's reading.
GetEnd_KeepsNewer ==
  LET stored == /\ frame.res # {}
                /\ \A e \in StoredAt(cache, frame.key) :
                     e.timestamp <= frame.now
  IN  /\ frame.status = "computing"
      /\ cache' = IF stored
                    THEN GetStore(cache, frame.key,
                                  CHOOSE v \in frame.res : TRUE, frame.now)
                    ELSE cache
      /\ frame' = [frame EXCEPT
                     !.status = IF frame.res # {} THEN "returned" ELSE "raised",
                     !.over = IF stored THEN StoredAt(cache, frame.key) ELSE {}]
      /\ last' = Obs(frame.op, frame.key, frame.fn, frame.args, frame.now,
                     frame.swept, TRUE, frame.res = {}, frame.res)
      /\ UNCHANGED <<clock, max_age, cleanup_interval, last_cleanup>>

\* compute ends: if it returned, self._cache[key] = (result, now) with the now
\* read before compute started, and get* returns; if it raised, get* is left.
GetEnd ==
  LET stored == frame.res # {}
  IN  /\ frame.status = "computing"
      /\ cache' = IF stored
                    THEN GetStore(cache, frame.key,
                                  CHOOSE v \in frame.res : TRUE, frame.now)
                    ELSE cache
      /\ frame' = [frame EXCEPT
                     !.status = IF stored THEN "returned" ELSE "raised",
                     !.over = IF stored THEN StoredAt(cache, frame.key) ELSE {}]
      /\ last' = Obs(frame.op, frame.key, frame.fn, frame.args, frame.now,
                     frame.swept, TRUE, frame.res = {}, frame.res)
      /\ UNCHANGED <<clock, max_age, cleanup_interval, last_cleanup>>

\* What the two halves of a get* call leave alone.
RestFrame == UNCHANGED <<computed_at, decoVars, keyVars, sweeps>>

\* The compute of a get* call is running.
Computing == frame.status = "computing"

\* A get* call enters compute or leaves it; the compute that is running makes
\* a whole call of get, invalidate or clear; the clock advances.
NextReentry ==
  \/ \E key \in Keys, compute \in Computes0 :
       GetBegin("get", key, compute, <<>>, Call0(compute)) /\ RestFrame
  \/ \E key \in Keys, arg \in Args, compute \in Computes1 :
       /\ GetBegin("get_with_arg", key, compute, <<arg>>, Call1(compute, arg))
       /\ RestFrame
  \/ \E key \in Keys, args \in ArgPairs, compute \in Computes2 :
       /\ GetBegin("get_with_2_args", key, compute, args,
                   Call2(compute, args[1], args[2]))
       /\ RestFrame
  \/ GetEnd /\ RestFrame
  \/ \E key \in Keys, compute \in Computes0 :
       Computing /\ Get(key, compute) /\ Rest(FALSE)
  \/ \E key \in Keys : Computing /\ Invalidate(key) /\ Rest(FALSE)
  \/ Computing /\ Clear /\ Rest(FALSE)
  \/ (frame = NoFrame \/ Computing) /\ Tick /\ Rest(FALSE)

\* A new cache and one get* call on it whose compute callable calls the cache
\* it is computing for.
SpecReentry == InitBackward /\ [][NextReentry]_vars

\* ===================================================================
\* Properties
\* ===================================================================
IsGet(l) == l.op \in GetOps

\* What the callable handed to the call `l` yields for the arguments it was
\* invoked with.
Expected(l) ==
  IF l.op = "get" THEN Call0(l.fn)
  ELSE IF l.op = "get_with_arg" THEN Call1(l.fn, l.args[1])
  ELSE Call2(l.fn, l.args[1], l.args[2])

\* key has a stored entry whose age at the clock reading `now` is < max_age.
LiveAt(key, now) ==
  key \in DOMAIN cache /\ now - cache[key].timestamp < max_age

\* Every clock reading of the call just made was the reading `clock` of the
\* state it started in (its sweep, if any, read the same value).
SameReading == last'.swept => last_cleanup' = clock

\* C1: a get* call whose key has, at the call's clock reading, a stored entry
\* of age < max_age does not invoke compute, returns the stored value whatever
\* callable was passed, and leaves the entry's value and timestamp unchanged.
C1_LiveAtCallIsHit ==
  [][\A k \in Keys :
       (IsGet(last') /\ last'.key = k /\ LiveAt(k, clock))
       => /\ ~last'.computed
          /\ last'.ret = {cache[k].value}
          /\ k \in DOMAIN cache'
          /\ cache'[k] = cache[k]]_vars

\* A get* call on k that starts with no entry for k, or an expired one,
\* invokes compute; when compute returns, the result is returned and stored
\* for k with the clock reading the call took on entry.
MissComputesAndStores ==
  \A k \in Keys :
    (IsGet(last') /\ last'.key = k /\ ~LiveAt(k, clock))
    => /\ last'.computed
       /\ last'.raised = (Expected(last') = {})
       /\ ~last'.raised =>
            /\ last'.ret = Expected(last')
            /\ k \in DOMAIN cache'
            /\ {cache'[k].value} = Expected(last')
            /\ cache'[k].timestamp = clock

\* The state is the one a get* miss on k left, no time having passed since
\* that call read the clock, and the step is a get* on k at that same reading.
ImmediateRepeat(k) ==
  /\ IsGet(last) /\ last.key = k /\ last.computed /\ ~last.raised
  /\ last.now = clock
  /\ IsGet(last') /\ last'.key = k /\ SameReading

\* C2 as stated: a miss computes, stores and returns; a get* on the same key
\* issued immediately afterwards is a hit returning the same value.
C2_MissThenImmediateHit ==
  [][/\ MissComputesAndStores
     /\ \A k \in Keys :
          ImmediateRepeat(k) => ~last'.computed /\ last'.ret = last.ret]_vars

\* C2 (amended): a miss computes, stores with the call's clock reading and
\* returns; with max_age > 0 a get* on the same key issued with no time passed
\* since that reading is a hit returning the same value without computing.
C2_MissThenImmediateHitPositiveAge ==
  [][/\ MissComputesAndStores
     /\ \A k \in Keys :
          (ImmediateRepeat(k) /\ max_age > 0)
          => ~last'.computed /\ last'.ret = last.ret]_vars

\* A get* hit on an entry stamped with the very clock reading of the call:
\* the repeat of the miss that stored it.
C2_Witness ==
  /\ IsGet(last) /\ ~last.computed /\ max_age > 0
  /\ last.key \in DOMAIN cache
  /\ cache[last.key].timestamp = last.now
  /\ clock = last.now

\* C3: contains(K) is true iff K is stored with age < max_age (age = max_age
\* is expired), swept or not; at one clock reading contains(K) is true exactly
\* when get*(K, f) returns without invoking f; once max_age has elapsed since
\* the entry was stored contains(K) is false and the next get*(K, f) invokes f.
C3_ContainsIsLiveness ==
  [][\A k \in Keys :
       /\ (last'.op = "contains" /\ last'.key = k)
          => last'.ret = {LiveAt(k, clock)}
       /\ (IsGet(last') /\ last'.key = k /\ SameReading)
          => (last'.computed <=> ~ContainsAt(k, clock))
       /\ (k \in DOMAIN cache /\ clock - cache[k].timestamp >= max_age)
          => /\ ~ContainsAt(k, clock)
             /\ (IsGet(last') /\ last'.key = k) => last'.computed]_vars

\* contains answered False for a stored, unswept entry of age exactly max_age.
C3_Witness ==
  /\ last.op = "contains" /\ last.ret = {FALSE}
  /\ max_age > 0
  /\ last.key \in DOMAIN cache
  /\ last.now - cache[last.key].timestamp = max_age

\* C4: with max_age > 0 unchanged, no invalidate/clear and no failing compute,
\* two invocations of compute made by get* for one key are made at lookup
\* times at least max_age apart, whatever sweeps run in between.
C4_OncePerWindow ==
  [][\A k \in Keys :
       (IsGet(last') /\ last'.key = k /\ last'.computed /\ ~last'.raised
        /\ max_age > 0)
       => \A t \in computed_at[k] : clock - t >= max_age]_vars

\* C5: when compute raises inside get*, nothing is returned and the cache is
\* exactly as before the call: no entry written, the key's old entry and every
\* other entry untouched, last_cleanup unchanged.
C5_FailedComputeLeavesCacheUntouched ==
  [][(IsGet(last') /\ last'.raised)
     => /\ last'.ret = {}
        /\ cache' = cache
        /\ last_cleanup' = last_cleanup]_vars

\* C6: cleanup() removes exactly the entries with now - created_at >= max_age
\* (the max_age of the moment), leaves the others unchanged and sets
\* last_cleanup to its clock reading, removal or not; right after it every
\* stored key satisfies contains, and if every entry was older than max_age
\* the cache is empty.
C6_CleanupRemovesExactlyExpired ==
  [][last'.op = "cleanup"
     => /\ DOMAIN cache' =
             {k \in DOMAIN cache : ~(clock - cache[k].timestamp >= max_age)}
        /\ last'.ret = (DOMAIN cache) \ (DOMAIN cache')
        /\ \A k \in DOMAIN cache' : cache'[k] = cache[k]
        /\ last_cleanup' = clock
        /\ \A k \in DOMAIN cache' : ContainsAt(k, clock)'
        /\ (\A k \in DOMAIN cache : clock - cache[k].timestamp > max_age)
             => Len' = 0
        /\ UNCHANGED <<clock, max_age, cleanup_interval>>]_vars

\* cleanup() has just deleted an expired entry and kept a live one, at a clock
\* reading later than the previous sweep.
C6_Witness ==
  /\ last.op = "cleanup"
  /\ last.ret # {}
  /\ DOMAIN cache # {}
  /\ max_age > 0
  /\ last_cleanup = clock

\* The keys of c other than `key` that are not expired at the reading `now`.
OthersKept(c, key, now) ==
  {k \in (DOMAIN c) \ {key} : now - c[k].timestamp < max_age}

\* C7: every get* call, hit or miss, runs cleanup() before the key lookup iff
\* now - last_cleanup >= cleanup_interval; nothing else sweeps but an explicit
\* cleanup(): invalidate, clear, contains, len, the max_age setter and the
\* passage of time leave last_cleanup alone and delete no expired entry.
C7_SweepOnlyWhenDue ==
  [][/\ IsGet(last')
        => /\ last'.swept <=> (clock - last_cleanup >= cleanup_interval)
           /\ last'.swept
                => /\ last_cleanup' \in clock..clock'
                   /\ (DOMAIN cache') \ {last'.key}
                        = OthersKept(cache, last'.key, last_cleanup')
                   /\ (~last'.computed \/ last'.raised)
                        => DOMAIN cache' =
                             {k \in DOMAIN cache :
                                last_cleanup' - cache[k].timestamp < max_age}
           /\ ~last'.swept
                => /\ last_cleanup' = last_cleanup
                   /\ (DOMAIN cache) \ {last'.key} = (DOMAIN cache') \ {last'.key}
     /\ last'.op \in {"invalidate", "clear", "contains", "len", "set_max_age", "tick"}
        => /\ last_cleanup' = last_cleanup
           /\ ~last'.swept
     /\ last'.op \in {"contains", "len", "set_max_age", "tick"}
        => cache' = cache
     /\ last'.op = "invalidate"
        => (DOMAIN cache) \ {last'.key} = (DOMAIN cache') \ {last'.key}]_vars

\* A get* hit in which the opportunistic sweep ran, with a positive interval,
\* and deleted the expired entry of the other key.
C7_Witness ==
  /\ IsGet(last) /\ last.swept /\ ~last.computed
  /\ cleanup_interval > 0
  /\ last_cleanup - clock = 0
  /\ DOMAIN cache = {last.key}

\* C8: invalidate(K) removes K's entry if present and does nothing if absent;
\* it invokes no compute, leaves every other entry, max_age and last_cleanup
\* unchanged, and the next get*(K, f), which finds K absent, invokes f.
C8_InvalidateRemovesOnlyKey ==
  [][\A k \in Keys :
       /\ (last'.op = "invalidate" /\ last'.key = k)
          => /\ DOMAIN cache' = (DOMAIN cache) \ {k}
             /\ \A j \in DOMAIN cache' : cache'[j] = cache[j]
             /\ (k \notin DOMAIN cache) => cache' = cache
             /\ ~last'.computed
             /\ UNCHANGED <<clock, max_age, cleanup_interval, last_cleanup>>
       /\ (k \notin DOMAIN cache /\ IsGet(last') /\ last'.key = k)
          => last'.computed]_vars

\* invalidate has just removed a stored entry and the other key's entry stays.
C8_Witness ==
  /\ last.op = "invalidate"
  /\ last.ret = {last.key}
  /\ DOMAIN cache = Keys \ {last.key}

\* C9: clear() removes every entry, live or expired: afterwards len() is 0
\* and contains is false for every key; last_cleanup and max_age are
\* unchanged, and a get* on the emptied cache invokes its compute whatever
\* the key.
C9_ClearEmptiesCache ==
  [][/\ last'.op = "clear"
        => /\ DOMAIN cache' = {}
           /\ Len' = 0
           /\ \A k \in Keys : ~ContainsAt(k, clock)'
           /\ UNCHANGED <<clock, max_age, cleanup_interval, last_cleanup>>
     /\ (DOMAIN cache = {} /\ IsGet(last')) => last'.computed]_vars

\* clear() has just dropped two entries, one live and one expired.
C9_Witness ==
  /\ last.op = "clear"
  /\ last.ret = Keys
  /\ DOMAIN cache = {}
  /\ max_age > 0
  /\ last_cleanup < clock

\* What C10 says of len() outside the get* miss on an expired key: len() is
\* the number of stored entries, never less than the number of keys contains
\* accepts, unchanged by time, contains and the max_age setter; stored keys
\* disappear only in invalidate, clear, cleanup or a get* that swept.
LenIsRawCount ==
  /\ last'.op = "len" => last'.ret = {Cardinality(DOMAIN cache)}
  /\ Len >= Cardinality({k \in Keys : ContainsAt(k, clock)})
  /\ Len = Cardinality(DOMAIN cache)
  /\ last'.op \in {"tick", "contains", "set_max_age", "len"} => Len' = Len
  /\ ~((DOMAIN cache) \subseteq (DOMAIN cache'))
     => \/ last'.op \in {"invalidate", "clear", "cleanup"}
        \/ IsGet(last') /\ last'.swept

\* The step is a get* on k, stored and expired at the call's reading, whose
\* compute returned.
ExpiredMiss(k) ==
  /\ IsGet(last') /\ last'.key = k
  /\ k \in DOMAIN cache /\ clock - cache[k].timestamp >= max_age
  /\ last'.computed /\ ~last'.raised

\* C10 as stated: ... and a get* miss on an expired key replaces the entry
\* without changing len().
C10_LenRawCount ==
  [][/\ LenIsRawCount
     /\ \A k \in Keys : ExpiredMiss(k) => Len' = Len]_vars

\* C10 (amended): ... and a get* miss on an expired key replaces the entry
\* without changing len() when the call does not sweep; when it sweeps, len()
\* drops by the number of other entries expired at the sweep's clock reading.
C10_LenRawCountUpToSweep ==
  [][/\ LenIsRawCount
     /\ \A k \in Keys :
          ExpiredMiss(k)
          => /\ k \in DOMAIN cache'
             /\ ~last'.swept => Len' = Len
             /\ last'.swept
                  => Len' = 1 + Cardinality(OthersKept(cache, k, last_cleanup'))]_vars

\* len() has just answered 2 while contains accepts no key: both entries are
\* expired and unswept.
C10_Witness ==
  /\ last.op = "len" /\ last.ret = {2}
  /\ max_age > 0
  /\ \A k \in Keys : ~ContainsAt(k, clock)

\* An entry of k is stored and its age at the reading `now` is below `age`.
LiveUnder(k, now, age) ==
  k \in DOMAIN cache /\ now - cache[k].timestamp < age

\* C11: assigning max_age changes no entry, no timestamp and not last_cleanup;
\* from the next operation on (until the next assignment) contains, cleanup
\* and get* judge every stored entry against the value assigned, so an entry
\* can become expired or live again by the assignment alone.
C11_SetterRejudgesEntries ==
  [][/\ last'.op = "set_max_age"
        => /\ max_age' = last'.args[1]
           /\ last'.ret = {max_age}
           /\ cache' = cache
           /\ UNCHANGED <<clock, cleanup_interval, last_cleanup>>
           /\ \A k \in Keys :
                ContainsAt(k, clock)' <=> LiveUnder(k, clock, last'.args[1])
     /\ last'.op # "set_max_age" => max_age' = max_age
     /\ last.op = "set_max_age"
        => /\ max_age = last.args[1]
           /\ last'.op = "contains"
                => last'.ret = {LiveUnder(last'.key, clock, last.args[1])}
           /\ last'.op = "cleanup"
                => DOMAIN cache' =
                     {k \in Keys : LiveUnder(k, clock, last.args[1])}
           /\ (IsGet(last') /\ SameReading)
                => /\ last'.computed
                        <=> ~LiveUnder(last'.key, clock, last.args[1])
                   /\ ~last'.computed
                        => last'.ret = {cache[last'.key].value}]_vars

\* max_age has just been raised over the age of a stored, unswept entry that
\* the replaced value made expired: contains accepts it again.
C11_Witness ==
  /\ last.op = "set_max_age"
  /\ \E k \in DOMAIN cache, old \in last.ret :
       /\ clock - cache[k].timestamp >= old
       /\ old > 0
       /\ clock - cache[k].timestamp < max_age
       /\ ContainsAt(k, clock)

\* C12: a get* on k never creates, replaces or re-timestamps the entry of
\* another key j (so it cannot make a later get* on j a hit), an entry of j
\* that is still live when the call returns is kept as it was, and whether the
\* call on k computes depends on k's own entry only: with no live entry for k
\* it invokes its own compute, and a hit returns k's stored value.
C12_KeysIndependent ==
  [][\A k \in Keys, j \in Keys :
       (IsGet(last') /\ last'.key = k /\ j # k)
       => /\ j \in DOMAIN cache'
               => (j \in DOMAIN cache /\ cache'[j] = cache[j])
          /\ LiveUnder(j, clock', max_age)
               => (j \in DOMAIN cache' /\ cache'[j] = cache[j])
          /\ ~last'.swept
               => (j \in DOMAIN cache <=> j \in DOMAIN cache')
          /\ ~LiveAt(k, clock)
               => /\ last'.computed
                  /\ ~last'.raised => last'.ret = Expected(last')
          /\ ~last'.computed
               => (k \in DOMAIN cache /\ last'.ret = {cache[k].value})]_vars

\* A get* on one key has just swept, computed and stored while the other key
\* holds a live entry with another value and an older timestamp.
C12_Witness ==
  /\ IsGet(last) /\ last.computed /\ ~last.raised /\ last.swept
  /\ \E j \in Keys \ {last.key} :
       /\ ContainsAt(j, clock)
       /\ last.key \in DOMAIN cache
       /\ cache[j].value # cache[last.key].value
       /\ cache[j].timestamp < cache[last.key].timestamp

\* What get(key, lambda: r) does from the current state when the closure
\* yields `res` ({} when it raises), the clock having moved by `drift` when
\* cleanup() reads it and by `dur` more while the closure runs: the dict, the
\* last_cleanup and the clock it leaves, whether it swept, invoked the closure,
\* raised, and what it returned.
GetOutcome(key, res, drift, dur) ==
  LET now == clock
      due == now - last_cleanup >= cleanup_interval
      swept == IF due
                 THEN Remove(cache, {k \in DOMAIN cache :
                                       (now + drift) - cache[k].timestamp >= max_age})
                 ELSE cache
      hit == key \in DOMAIN swept /\ now - swept[key].timestamp < max_age
  IN  [cache |-> IF hit \/ res = {}
                   THEN swept
                   ELSE Store(swept, key, CHOOSE v \in res : TRUE, now),
       last_cleanup |-> IF due THEN now + drift ELSE last_cleanup,
       clock |-> IF hit THEN now + drift ELSE now + drift + dur,
       swept |-> due,
       computed |-> ~hit,
       raised |-> ~hit /\ res = {},
       ret |-> IF hit THEN {swept[key].value} ELSE res]

\* Every outcome get(key, lambda: r) can have from the current state.
GetOutcomes(key, res) ==
  LET drifts == IF clock - last_cleanup >= cleanup_interval THEN Drifts ELSE {0}
  IN  {o \in {GetOutcome(key, res, drift, dur) : drift \in drifts, dur \in Drifts} :
         o.clock <= MaxTime}

\* The outcome of the get* call just made.
StepOutcome ==
  [cache |-> cache', last_cleanup |-> last_cleanup', clock |-> clock',
   swept |-> last'.swept, computed |-> last'.computed,
   raised |-> last'.raised, ret |-> last'.ret]

\* The step has outcome o.
HasOutcome(o) ==
  /\ cache' = o.cache /\ last_cleanup' = o.last_cleanup /\ clock' = o.clock
  /\ last'.swept = o.swept /\ last'.computed = o.computed
  /\ last'.raised = o.raised /\ last'.ret = o.ret

\* Every outcome of get(key, lambda: f(a)) is an outcome get_with_arg(key, a,
\* f) can have from the current state, and likewise for get_with_2_args.
ArgVariantsCoverGet ==
  /\ \A k \in Keys, a \in Args, f \in Computes1 :
       \A o \in GetOutcomes(k, Call1(f, a)) :
         ENABLED (GetWithArg(k, a, f) /\ HasOutcome(o))
  /\ \A k \in Keys, ab \in ArgPairs, g \in Computes2 :
       \A o \in GetOutcomes(k, Call2(g, ab[1], ab[2])) :
         ENABLED (GetWith2Args(k, ab[1], ab[2], g) /\ HasOutcome(o))

Sequential == Cardinality(plan.tasks) = 1 /\ dlast' # dlast

\* The dict of `func` after storing `result` for `call` with the reading `now`.
StoredFor(func, call, result, now) ==
  [dcache EXCEPT ![func] = Store(dcache[func], DecoKey(call), result, now)]

\* C14: with calls that do not overlap, a call of a function wrapped by
\* memoize_sync or memoize returns the stored result without invoking the
\* function when an entry for its arguments is stored with age < max_age;
\* otherwise (no entry, or age >= max_age) it invokes the function exactly
\* once and, when the function returns, stores the new result and returns it.
C14_DecoratedCallHitOrCompute ==
  [][/\ (Sequential /\ dlast'.op \in {"call", "await"})
        => LET f == dlast'.func
               k == DecoKey(dlast'.call)
               c == dcache[f]
               r == WrappedResult(f, dlast'.call, clock)
           IN  IF k \in DOMAIN c /\ clock - c[k].timestamp < deco_max_age
                 THEN /\ dlast'.op = "call" /\ dlast'.computed = 0
                      /\ dlast'.ret = {c[k].value}
                      /\ dcache' = dcache
                 ELSE /\ dlast'.computed = 1
                      /\ dlast'.outcome = "returned"
                           => /\ dlast'.ret = {r}
                              /\ dcache' = StoredFor(f, dlast'.call, r, clock)
                      /\ dlast'.outcome # "returned"
                           => dlast'.ret = {} /\ dcache' = dcache
     /\ (Sequential /\ dlast'.op = "resume")
        => /\ dlast.op = "await" /\ dlast'.computed = 0
           /\ dlast'.func = dlast.func /\ dlast'.call = dlast.call
           /\ dlast'.outcome = "returned"
                => LET r == WrappedResult(dlast.func, dlast.call, dlast.now)
                   IN  /\ dlast'.ret = {r}
                       /\ dcache' = StoredFor(dlast.func, dlast.call, r, dlast.now)]_vars

\* A wrapper call has just returned a result stored by an earlier call, the
\* entry being one tick short of max_age.
C14_Witness ==
  /\ dlast.op = "call" /\ dlast.outcome = "hit"
  /\ \E v \in dlast.ret : dlast.now - v.at = deco_max_age - 1 /\ v.at < dlast.now

\* The previous wrapper call, made for the same function and arguments as the
\* call of this step, ended with a value at hand less than max_age ago.
ConsecutiveWithinMaxAge ==
  /\ dlast.op \in {"call", "resume"} /\ dlast.outcome \in {"hit", "returned"}
  /\ dlast'.op \in {"call", "await"}
  /\ dlast'.func = dlast.func /\ DecoKey(dlast'.call) = DecoKey(dlast.call)
  /\ clock - dlast.now < deco_max_age

\* C15 as stated: whenever two consecutive calls with equal arguments occur
\* within max_age of each other, the later one returns the cached value
\* without invoking f, for every such pair of a long sequence of calls.
C15_ConsecutiveCallsHit ==
  [][(Sequential /\ ConsecutiveWithinMaxAge)
     => dlast'.computed = 0 /\ dlast'.ret = dlast.ret]_vars

\* C15 (amended): a call made less than max_age after the call that stored
\* the entry of its arguments returns the cached value without invoking f,
\* however many calls came in between; a hit does not renew the entry, so a
\* call made within max_age of the previous call but max_age or more after the
\* storing call invokes f again.
C15_CallsWithinMaxAgeOfStoreHit ==
  [][(Sequential /\ dlast'.op \in {"call", "await"})
     => LET f == dlast'.func
            k == DecoKey(dlast'.call)
        IN  /\ (k \in DOMAIN dcache[f] /\ clock - dcache[f][k].value.at < deco_max_age)
                 => /\ dlast'.computed = 0
                    /\ dlast'.ret = {dcache[f][k].value}
                    /\ dcache'[f][k].timestamp = dcache[f][k].timestamp
            /\ (ConsecutiveWithinMaxAge /\ k \in DOMAIN dcache[f]
                 /\ clock - dcache[f][k].value.at >= deco_max_age)
                 => dlast'.computed = 1]_vars

\* The third call of a sequence with equal arguments: it hit an entry that
\* the previous call, a hit too, had already returned.
C15_Witness ==
  /\ dlast.op = "call" /\ dlast.outcome = "hit"
  /\ \E v \in dlast.ret : dlast.now - v.at >= 1
  /\ clock = dlast.now

\* Two calls pass equal positional tuples and equal keyword name-to-value maps.
SameCall(s, t) == s.args = t.args /\ KwMap(s.kwargs) = KwMap(t.kwargs)

\* The stored value v was computed for a call equal to `call`.
ComputedFor(v, call) == v.args = call.args /\ v.kw = KwMap(call.kwargs)

\* The values stored in the dict of func.
StoredValues(func) == {dcache[func][k].value : k \in DOMAIN dcache[func]}

\* C16: the decorators' key is (positional tuple, keyword items sorted by
\* name): two calls have the same key iff their positional tuples and their
\* keyword maps are equal, whatever the order the keywords are written in and
\* with a value passed positionally differing from the same value passed by
\* keyword; a call hits only an entry computed for an equal call, a call
\* differing from every stored one invokes the function and adds an entry of
\* its own, and a call equal to the one just stored hits its entry.
C16_KeyIsArgsAndSortedKwargs ==
  /\ [](\A s \in CallShapes, t \in CallShapes :
          (DecoKey(s) = DecoKey(t)) <=> SameCall(s, t))
  /\ [][(Sequential /\ dlast'.op \in {"call", "await"})
        => LET f == dlast'.func
               s == dlast'.call
           IN  /\ \A v \in dlast'.ret : ComputedFor(v, s)
               /\ (\A v \in StoredValues(f) : ~ComputedFor(v, s))
                    => /\ dlast'.computed = 1
                       /\ dlast'.op = "call" /\ dlast'.outcome = "returned"
                            => /\ Cardinality(DOMAIN dcache'[f])
                                    = Cardinality(DOMAIN dcache[f]) + 1
                               /\ \A k \in DOMAIN dcache[f] :
                                    /\ k \in DOMAIN dcache'[f]
                                    /\ dcache'[f][k] = dcache[f][k]
               /\ (dlast.op \in {"call", "resume"} /\ dlast.outcome = "returned"
                   /\ dlast.func = f /\ SameCall(dlast.call, s)
                   /\ clock - dlast.now < deco_max_age)
                    => dlast'.computed = 0 /\ dlast'.ret = dlast.ret]_vars

\* f(5, multiplier=3) has just been computed and stored beside the entry of
\* f(5, multiplier=2): two entries with equal positional tuples.
C16_Witness ==
  /\ dlast.op = "call" /\ dlast.outcome = "returned"
  /\ \E v \in StoredValues(dlast.func), w \in StoredValues(dlast.func) :
       /\ v.args = w.args
       /\ DOMAIN v.kw = {"multiplier"} /\ DOMAIN w.kw = {"multiplier"}
       /\ v.kw["multiplier"] = 2 /\ w.kw["multiplier"] = 3
       /\ w \in dlast.ret

\* A call has just hit the entry stored by a call that wrote the same
\* keywords in another order.
C16_WitnessOrder ==
  /\ dlast.op = "call" /\ dlast.outcome = "hit"
  /\ dlast.call.kwargs = << <<"offset", 1>>, <<"multiplier", 2>> >>
  /\ DOMAIN dcache[dlast.func] =
       {DecoKey([args |-> <<5>>,
                 kwargs |-> << <<"multiplier", 2>>, <<"offset", 1>> >>])}

\* C17: each application of a decorator has its own dict: a wrapper step of
\* one decorated function leaves the dict of the other as it is and returns
\* only values computed by its own function, and with no entry in its own dict
\* a call invokes its function whatever the other function has stored for the
\* same arguments, both functions being wrapped by one decorator object.
C17_CachePerDecoratedFunction ==
  [][dlast' # dlast
     => LET f == dlast'.func
        IN  /\ \A g \in Funcs \ {f} : dcache'[g] = dcache[g]
            /\ \A v \in dlast'.ret : v.by = f
            /\ (dlast'.op \in {"call", "await"}
                 /\ DecoKey(dlast'.call) \notin DOMAIN dcache[f])
                 => dlast'.computed = 1
            /\ \A k \in DOMAIN dcache'[f] : dcache'[f][k].value.by = f]_vars

\* G has just been computed and stored for the arguments for which F holds a
\* live entry stored earlier.
C17_Witness ==
  /\ dlast.func = "G" /\ dlast.outcome = "returned"
  /\ \E k \in DOMAIN dcache["F"] :
       /\ k \in DOMAIN dcache["G"]
       /\ clock - dcache["F"][k].timestamp < deco_max_age
       /\ dcache["F"][k].timestamp < dcache["G"][k].timestamp

\* C18: when the computation awaited by the memoize wrapper raises or the
\* caller is cancelled while suspended on it, the error or cancellation
\* reaches the caller and the wrapper writes nothing: suspending and ending
\* both leave the decorator's dict exactly as it was, an earlier entry for the
\* same arguments included; likewise when the function wrapped by
\* memoize_sync raises.
C18_FailedCallWritesNothing ==
  [][/\ dlast'.op = "await" => dcache' = dcache
     /\ (dlast' # dlast /\ dlast'.op = "resume")
        => /\ awaiting[dlast'.task].func = dlast'.func
           /\ awaiting'[dlast'.task] = NotAwaiting
           /\ dlast'.outcome \in {"raised", "cancelled"}
                => dcache' = dcache /\ dlast'.ret = {}
     /\ (dlast' # dlast /\ dlast'.op = "call" /\ dlast'.outcome = "raised")
        => dcache' = dcache /\ dlast'.ret = {} /\ dlast'.computed = 1]_vars

\* A suspended wrapper call has just been cancelled; the expired entry stored
\* earlier for the same arguments is still there.
C18_Witness ==
  /\ dlast.op = "resume" /\ dlast.outcome = "cancelled"
  /\ deco_max_age > 0
  /\ DecoKey(dlast.call) \in DOMAIN dcache[dlast.func]
  /\ dlast.now - dcache[dlast.func][DecoKey(dlast.call)].timestamp >= deco_max_age

\* The key b is a signed 64-bit number: its bits from 63 up are all equal.
FitsSigned64(b) == \A i \in BitPositions : i >= 63 => b[i] = b[63]

\* C19: over signed 32-bit x and y, negative ones included, pos_key gives two
\* pairs the same key iff the pairs are equal (so (10, 20), (20, 10) and
\* (-10, -20) have three different keys), and the key fits in 64 signed bits.
C19_PosKeyInjective ==
  (kin.fn = "pos_key" /\ kout # <<>>)
  => /\ (kout[1] = kout[2]) <=> (kin.a = kin.b)
     /\ FitsSigned64(kout[1])
     /\ pos_key(10, 20) # pos_key(20, 10)
     /\ pos_key(-10, -20) # pos_key(10, 20)
     /\ pos_key(-10, -20) = pos_key(-10, -20)

\* pos_key has been applied to the two ends of the range and to its mirror
\* pair; the keys differ.
C19_Witness ==
  /\ kin.fn = "pos_key" /\ kout # <<>>
  /\ kin.a = <<-2147483647 - 1, 2147483647>>
  /\ kin.b = <<2147483647, -2147483647 - 1>>
  /\ kout[1] # kout[2]

\* C20: for agent ids >= 0 and x, y in -2^23 .. 2^23 - 1, negative values
\* included, agent_pos_key gives two triples the same key only if agent id, x
\* and y are all equal; the same position for two agents never has one key.
C20_AgentPosKeyInjective ==
  (kin.fn = "agent_pos_key" /\ kout # <<>>)
  => ((kout[1] = kout[2]) => (kin.a = kin.b))

\* The argument sequences a and b have the same length and equal elements at
\* every position.
SameSequence(a, b) ==
  /\ Cardinality(DOMAIN a) = Cardinality(DOMAIN b)
  /\ \A i \in DOMAIN a : i \in DOMAIN b /\ a[i] = b[i]

\* C21: cache_key(a...) = cache_key(b...) iff the two argument sequences have
\* the same length and equal elements at every position; as keys of one dict,
\* equal sequences reach the same entry, permuted or differing ones do not.
C21_CacheKeyStructural ==
  (kin.fn = "cache_key" /\ kout # <<>>)
  => /\ (kout[1] = kout[2]) <=> SameSequence(kin.a, kin.b)
     /\ (kout[3] = {"value"}) <=> SameSequence(kin.a, kin.b)
     /\ kout[3] = {} <=> ~SameSequence(kin.a, kin.b)

\* cache_key has been applied to (1, "a", (2, 3)) and to a permutation of
\* it: the keys differ and the second finds no entry.
C21_Witness ==
  /\ kin.fn = "cache_key" /\ kout # <<>>
  /\ kin.a = <<"1", "a", "(2, 3)">>
  /\ kin.b = <<"a", "1", "(2, 3)">>
  /\ kout[1] # kout[2] /\ kout[3] = {}

\* last_cleanup is what the last recorded cleanup() (or the constructor)
\* assigned: the reading of a manual cleanup(), a reading no earlier than the
\* reading of the get* call for an opportunistic one, and never a time in
\* the future or before the previous assignment.
LastCleanupIsLastSweep ==
  /\ last_cleanup = sweeps.latest.at
  /\ sweeps.prev.at <= sweeps.latest.at
  /\ sweeps.latest.at <= clock
  /\ sweeps.latest.now <= sweeps.latest.at
  /\ sweeps.latest.kind \in {"init", "manual"}
       => sweeps.latest.at = sweeps.latest.now

\* An opportunistic sweep runs in a call that started at least
\* cleanup_interval after the previous assignment to last_cleanup, whoever
\* made it (the constructor, a manual cleanup() or an opportunistic one).
OpportunisticSweepsSpaced ==
  sweeps.latest.kind = "auto"
  => /\ sweeps.latest.now - sweeps.prev.at >= cleanup_interval
     /\ sweeps.latest.at - sweeps.prev.at >= cleanup_interval

\* C22: last_cleanup starts at the construction time and is changed only by
\* cleanup(), manual or opportunistic, which sets it to the time of that
\* sweep; it never decreases; with cleanup_interval > 0 an opportunistic sweep
\* comes no earlier than cleanup_interval after the construction, after the
\* previous opportunistic sweep or after a manual cleanup(), and a get* that
\* starts earlier than that leaves last_cleanup alone.
C22_LastCleanupSchedule ==
  /\ [](LastCleanupIsLastSweep /\ OpportunisticSweepsSpaced)
  /\ [][/\ last_cleanup' >= last_cleanup
        /\ last_cleanup' # last_cleanup => last'.swept
        /\ (last'.op \in GetOps /\ clock - last_cleanup < cleanup_interval)
             => last_cleanup' = last_cleanup]_vars

\* Two opportunistic sweeps in a row, and one that a manual cleanup() had
\* postponed: a get* ran between the two without sweeping.
C22_Witness ==
  /\ cleanup_interval > 0
  /\ sweeps.latest.kind = "auto"
  /\ sweeps.prev.kind = "auto"
  /\ sweeps.latest.at > sweeps.prev.at

\* A manual cleanup() came later than the construction and the next
\* opportunistic sweep waited cleanup_interval from it.
C22_WitnessManual ==
  /\ sweeps.latest.kind = "auto"
  /\ sweeps.prev.kind = "manual"
  /\ sweeps.prev.at > 0
  /\ sweeps.latest.now = sweeps.prev.at + cleanup_interval

\* The dict at the lookup of the get* call that made this step: after its
\* opportunistic sweep, if it ran one, and before its store.
AtLookup ==
  IF last'.swept THEN CleanupCache(cache, last_cleanup') ELSE cache

\* C26: with max_age > 0 and cleanup_interval > 0 unchanged and a
\* non-decreasing clock, at the lookup of every get* call, after its
\* opportunistic-sweep step, every stored entry has age
\* < max_age + cleanup_interval.
C26_BoundedStaleness ==
  [][last'.op \in GetOps
       => \A k \in DOMAIN AtLookup :
            last'.now - AtLookup[k].timestamp < max_age + cleanup_interval]_vars

\* The max_age setter takes every value, whatever the state.
SetterAcceptsAll == \A value \in LooseAges : ENABLED SetMaxAge(value)

\* Every stored entry is expired now.
AllExpired == \A key \in DOMAIN cache : ~ContainsAt(key, clock)

\* C23: the constructor and the max_age setter accept a non-positive max_age
\* (or cleanup_interval) without any error; while max_age <= 0 every stored
\* entry is expired, so every get* invokes compute, contains is false for
\* every key and every sweep empties the cache (a get* that swept leaves at
\* most the entry it stores itself).
C23_NonPositiveMaxAgeAccepted ==
  /\ [](SetterAcceptsAll /\ (max_age <= 0 => AllExpired))
  /\ [][max_age <= 0
         => /\ last'.op \in GetOps => last'.computed
            /\ last'.op = "contains" => last'.ret = {FALSE}
            /\ (last'.op = "cleanup" /\ max_age' <= 0) => DOMAIN cache' = {}
            /\ (last'.op \in GetOps /\ last'.swept)
                 => DOMAIN cache' \subseteq {last'.key}]_vars

\* max_age is negative and contains has just answered False for a key whose
\* entry was stored at the current clock reading.
C23_Witness ==
  /\ max_age < 0
  /\ last.op = "contains" /\ last.ret = {FALSE}
  /\ last.key \in DOMAIN cache
  /\ cache[last.key].timestamp = clock

\* The setter has just replaced a positive max_age by a non-positive one
\* while an entry is stored.
C23_WitnessSetter ==
  /\ last.op = "set_max_age" /\ last.ret = {1} /\ max_age <= 0
  /\ DOMAIN cache # {}

\* A call of F or G by a task that is not suspended, made now, misses: its
\* key has no entry younger than max_age.
MissesNow(task, func, call) ==
  /\ deco_kind = "memoize"
  /\ task \in plan.tasks /\ call \in plan[func]
  /\ awaiting[task] = NotAwaiting
  /\ ~DecoFresh(dcache[CacheOf(func)], DecoKey(call), clock)

\* Whatever the other tasks are suspended on, a call that misses can start
\* and goes on to invoke the wrapped computation.
MissAlwaysComputes ==
  \A task \in Tasks, func \in Funcs, call \in CallShapes :
    MissesNow(task, func, call)
      => ENABLED (/\ AsyncCall(task, func, call)
                  /\ dlast'.outcome = "suspended"
                  /\ dlast'.computed = 1)

\* C24: memoize (async) does no in-flight de-duplication: a task is suspended
\* only in the await of the wrapped computation (a hit returns at once), and
\* a call that starts while another call with equal arguments is suspended
\* there and no live entry exists also misses and invokes the computation.
C24_NoInFlightDeduplication ==
  /\ []MissAlwaysComputes
  /\ [][\A task \in Tasks :
          (awaiting'[task] # awaiting[task] /\ awaiting'[task] # NotAwaiting)
            => /\ dlast'.op = "await" /\ dlast'.task = task
               /\ dlast'.computed = 1
               /\ awaiting[task] = NotAwaiting
               /\ ~DecoFresh(dcache[CacheOf(dlast'.func)],
                             DecoKey(dlast'.call), clock)]_vars

\* Two calls of F with equal arguments, started less than max_age apart, are
\* both suspended in the wrapped computation: it runs twice in one window.
C24_Witness ==
  /\ deco_kind = "memoize"
  /\ awaiting["T1"] # NotAwaiting /\ awaiting["T2"] # NotAwaiting
  /\ awaiting["T1"].func = awaiting["T2"].func
  /\ awaiting["T1"].call = awaiting["T2"].call
  /\ awaiting["T2"].now > awaiting["T1"].now
  /\ awaiting["T2"].now - awaiting["T1"].now < deco_max_age

\* C25: in memoize (async) an entry is stamped with the clock reading taken
\* when its call started, before the await; whichever of two overlapping
\* calls finishes last overwrites the entry, with its own result and its own
\* (possibly older) timestamp.
C25_AsyncEntryStampedAtCallStart ==
  [][/\ \A task \in Tasks :
          (awaiting[task] = NotAwaiting /\ awaiting'[task] # NotAwaiting)
            => awaiting'[task].now = clock /\ clock' = clock
     /\ \A task \in Tasks :
          (awaiting[task] # NotAwaiting /\ awaiting'[task] = NotAwaiting
             /\ dlast'.outcome = "returned")
            => LET a == awaiting[task]
                   e == dcache'[CacheOf(a.func)][DecoKey(a.call)]
               IN  /\ e.timestamp = a.now
                   /\ e.value = WrappedResult(a.func, a.call, a.now)
                   /\ dlast'.ret = {e.value}]_vars

\* A call that started earlier has just replaced a newer entry by its own
\* result with an older timestamp, and the entry is expired as it is written.
C25_Witness ==
  /\ dlast.op = "resume" /\ dlast.outcome = "returned"
  /\ \E ts \in dlast.over : ts > dlast.now
  /\ deco_max_age > 0
  /\ dcache[CacheOf(dlast.func)][DecoKey(dlast.call)].timestamp = dlast.now
  /\ clock - dlast.now >= deco_max_age

\* The step stored a result under `key` in the dict of `func`.
StoredStep(func, key) ==
  /\ CacheOf(dlast'.func) = func
  /\ DecoKey(dlast'.call) = key
  /\ dlast'.outcome = "returned"

GetStored == last.op \in GetOps /\ last.computed /\ ~last.raised

\* The last step of a wrapper stored the result of the wrapped function.
WrapperStored == dlast.outcome = "returned"

\* The entry the last storing call left carries the clock reading the call
\* took when it started; if compute ran for max_age or longer, the entry is
\* expired now.
StampIsCallReading ==
  /\ GetStored
       => /\ last.key \in DOMAIN cache
          /\ cache[last.key].timestamp = last.now
          /\ clock - last.now >= max_age => ~ContainsAt(last.key, clock)
  /\ WrapperStored
       => LET c == dcache[CacheOf(dlast.func)]
              key == DecoKey(dlast.call)
          IN  /\ key \in DOMAIN c
              /\ c[key].timestamp = dlast.now
              /\ clock - dlast.now >= deco_max_age => ~DecoFresh(c, key, clock)

\* C28: get* and both decorators stamp a new entry with the clock reading
\* taken at the start of the call, before compute runs, not with the
\* completion time; if compute took max_age or longer the entry is expired as
\* soon as it is stored: contains is false right after and the next call for
\* the key computes again.
C28_StampedAtCallStart ==
  /\ []StampIsCallReading
  /\ [][/\ last'.op \in GetOps => last'.now = clock
        /\ (dlast' # dlast /\ dlast'.op \in {"call", "await"})
             => dlast'.now = clock
        /\ (dlast' # dlast /\ dlast'.op = "resume")
             => dlast'.now = awaiting[dlast'.task].now
        /\ (GetStored /\ clock - last.now >= max_age /\ last'.key = last.key)
             => /\ last'.op = "contains" => last'.ret = {FALSE}
                /\ last'.op \in GetOps => last'.computed
        /\ (WrapperStored /\ clock - dlast.now >= deco_max_age
               /\ dlast' # dlast /\ dlast'.op \in {"call", "await"}
               /\ dlast'.func = dlast.func /\ dlast'.call = dlast.call)
             => dlast'.computed = 1]_vars

\* A get* whose compute ran for max_age has just returned without having
\* swept: the entry it stored is already expired.
C28_Witness ==
  /\ GetStored /\ ~last.swept
  /\ max_age > 0
  /\ clock - last.now >= max_age
  /\ cache[last.key].timestamp = last.now

\* The same for a decorated function.
C28_WitnessWrapper ==
  /\ WrapperStored
  /\ deco_max_age > 0
  /\ clock - dlast.now >= deco_max_age

\* The clock has not yet reached created_at + max_age for the entry of key.
BeforeExpiry(key) ==
  key \in DOMAIN cache /\ clock < cache[key].timestamp + max_age

\* C29: expiry and sweep scheduling compare readings of the wall clock: when
\* it has gone backwards after an entry was stored the entry is treated as
\* live (contains is true, get* returns it, cleanup keeps it) until the clock
\* reaches created_at + max_age again, and a get* runs no opportunistic sweep
\* until the clock reaches last_cleanup + cleanup_interval.
C29_BackwardClockKeepsEntriesLive ==
  [][/\ last'.op = "contains"
          => last'.ret = {BeforeExpiry(last'.key)}
     /\ (last'.op \in GetOps /\ BeforeExpiry(last'.key) /\ SameReading)
          => /\ ~last'.computed
             /\ last'.ret = {cache[last'.key].value}
     /\ last'.op = "cleanup"
          => DOMAIN cache' = {key \in DOMAIN cache : BeforeExpiry(key)}
     /\ last'.op \in GetOps
          => (last'.swept <=> clock >= last_cleanup + cleanup_interval)]_vars

\* A get* has just returned an entry stamped later than the call's own clock
\* reading (its age is negative), without sweeping although the reading is
\* before last_cleanup.
C29_Witness ==
  /\ last.op \in GetOps /\ ~last.computed /\ ~last.swept
  /\ last.key \in DOMAIN cache
  /\ last.now < cache[last.key].timestamp
  /\ last.now < last_cleanup

\* While compute runs the cache refuses nothing: compute can end, and it can
\* call get, invalidate and clear for the key it is computing.
NeverBlocks ==
  Computing
    => /\ ENABLED GetEnd
       /\ ENABLED Get(frame.key, "const4")
       /\ ENABLED Invalidate(frame.key)
       /\ ENABLED Clear

\* C30: the store that follows compute in get* is unconditional.  While
\* compute runs, a nested get for the same key finds no entry of the outer
\* call, invokes its own compute and stores its own result; when the outer
\* call returns, the key's entry is the outer result with the outer call's
\* earlier clock reading, whatever the nested calls stored or removed, and
\* the other entries are as the nested calls left them; the cache never
\* blocks on re-entry.
C30_OuterStoreOverwritesNested ==
  /\ []NeverBlocks
  /\ [][/\ (Computing /\ frame' = frame /\ last'.op \in GetOps
              /\ last'.key = frame.key /\ frame.key \notin DOMAIN cache)
             => /\ last'.computed
                /\ ~last'.raised
                     => cache'[frame.key] = Entry(CHOOSE v \in last'.ret : TRUE, clock)
        /\ (Computing /\ frame'.status = "returned")
             => /\ cache' = Store(cache, frame.key,
                                  CHOOSE v \in frame.res : TRUE, frame.now)
                /\ frame.now <= clock
                /\ last'.ret = frame.res
        /\ (Computing /\ frame'.status = "raised") => cache' = cache]_vars

\* An outer get* has returned after a nested get for the same key had stored
\* another value with a later timestamp: the entry is the outer result with
\* the outer call's earlier reading.
C30_Witness ==
  /\ frame.status = "returned"
  /\ \E e \in frame.over :
       /\ e.timestamp > frame.now
       /\ e.value \notin frame.res
  /\ cache[frame.key].timestamp = frame.now
  /\ cache[frame.key].value \in frame.res

====
